---- MODULE Spec2Model ----
(***************************************************************************)
(* Request admission control of backend-concepts: the five rate limiting   *)
(* middlewares of rate-limiting/rate-limiters.  Each middleware reads      *)
(* Date.now() and req.ip, consults its own module-level Map and either     *)
(* calls next() or answers 429 with a retryAfter hint.                     *)
(* server.js mounts the five in a chain; API-Throttling/middleware.js is   *)
(* the throttle that delays a request with setTimeout instead of           *)
(* rejecting it.                                                           *)
(*                                                                         *)
(* Time is in milliseconds, as Date.now() returns it.  The clock starts at *)
(* a small value instead of a 13-digit epoch value so that every product   *)
(* below stays inside TLC's 32-bit integers; only differences of clock     *)
(* values and their alignment to multiples of a window enter the code.     *)
(***************************************************************************)
EXTENDS Integers, Sequences, FiniteSets, TLC

VARIABLES
    now,              \* the value Date.now() returns
    ipRequestCounts,  \* fixed-window: Map ip -> {count, windowStart}
    requestLogs,      \* sliding-window: Map ip -> array of timestamps
    swcBuckets,       \* sliding-window-counter.js `buckets`: Map ip -> {current, previous}
    tokenBuckets,     \* token-bucket.js: Map ip -> {tokens, lastRefill}
    buckets,          \* leaky-token-bucket.js: Map ip -> {lastLeakTime, queue}
    resp,             \* outcome of the last invocation: next() or the 429 body
    hist,             \* per strategy and key, the record of the invocations
    run,              \* fixed window: position of the last request in the key's first window
    admitted,         \* sliding log: timestamps of the admitted requests of the trailing window
    passed,           \* clock values at which a request of the key was passed on, trailing window
    retryHints,       \* fixed window: the retryAfter hints given to the key
    IPMap,            \* API-Throttling/middleware.js: Map ip -> array of timestamps
    timers,           \* the pending setTimeout callbacks of the throttle
    reqs,             \* the requests the throttle has seen, in arrival order
    chain,            \* server.js: the request on its way through the app.use chain
    calls             \* fixed window: the invocations in flight when their steps may interleave

stores == <<ipRequestCounts, requestLogs, swcBuckets, tokenBuckets, buckets>>
\* what the observing runs record besides hist, run and admitted
watch == <<passed, retryHints>>
\* the state of the delaying throttle
throttle == <<IPMap, timers, reqs>>
vars == <<now, ipRequestCounts, requestLogs, swcBuckets, tokenBuckets, buckets,
          resp, hist, run, admitted, passed, retryHints, IPMap, timers, reqs, chain,
          calls>>

----------------------------------------------------------------------------
(* Bounds of the model *)

\* invocations recorded per key and strategy
MaxReqs == 20
\* last clock value of the token bucket and leaky bucket runs
MaxNow == 2500

\* clock advances of the token bucket and leaky bucket runs
BucketSteps == {500, 1000}

\* last clock value and clock advances of the fixed window runs
FWMaxNow == 1800000
FWSteps == {449500, 450000}

\* last clock value and clock advances of the fixed window runs that observe
\* the admissions
FWBurstMaxNow == 900000
FWBurstSteps == {450000}

\* longest stored log, last clock value and clock advances of the sliding log runs
MaxLog == 102
SLMaxNow == 1500002
SLSteps == {749000, 750000, 750001}

\* largest current count, last clock value and clock advances of the sliding
\* window counter runs; the advances of SWCOffsets, made from the start of a
\* bucket, lead to clock values whose weight is no binary fraction
MaxCount == 24
SWCMaxNow == 120000
SWCSteps == {15000, 30000, 60000}
SWCOffsets == {12, 31}

\* last clock value and clock advances of the sliding window counter runs
\* that observe the admissions
SWCRateMaxNow == 60012
SWCRateSteps == {15012, 45000}

\* requests, last clock value and clock advances of the throttle runs
ThMaxReqs == 8
ThMaxNow == 2000
\* how far the time of the event loop's turn lies before Date.now()
ThEarly == 1
ThSteps == {500, 999, 1000}

\* last clock value and clock advances of the chain runs
ChainMaxNow == 2000
IsoMaxReqs == 12
\* invocations in flight and window objects of the interleaved fixed window
RaceProcs == 2
RaceMaxObjs == 2
RaceFew == 3
IsoFew == 3
IsoMaxNow == 1000
ChainSteps == {1000}

Keys == {"ip1", "ip2"}
OneKey == {"ip1"}
Strategies == {"fixedWindow", "slidingLog", "slidingCounter", "tokenBucket", "leakyBucket"}

----------------------------------------------------------------------------
(* Arithmetic of the JavaScript expressions *)

Min(a, b) == IF a < b THEN a ELSE b
Max(a, b) == IF a > b THEN a ELSE b

\* Math.floor(a / b) for b > 0
FloorDiv(a, b) == a \div b

\* Math.ceil(a / b) for b > 0
CeilDiv(a, b) == -((-a) \div b)

\* Map.has(ip)
Has(map, ip) == ip \in DOMAIN map

\* Map.set(ip, v)
MapSetOnly(map, ip, v) == [k \in {ip} |-> v]
MapSetAll(map, ip, v) == [k \in (DOMAIN map) \cup {ip} |-> v]
MapSet(map, ip, v) == [k \in (DOMAIN map) \cup {ip} |-> IF k = ip THEN v ELSE map[k]]

\* next() was called, no response sent (status 0)
Continue(strategy, ip) ==
    [strategy |-> strategy, ip |-> ip, status |-> 0, next |-> TRUE,
     error |-> "", retryAfter |-> -1]

\* res.status(429).json({error, retryAfter}), next() not called; the dash of
\* the two bucket error texts is written in ASCII
RejectAndContinue(strategy, ip, error, retryAfter) ==
    [strategy |-> strategy, ip |-> ip, status |-> 429, next |-> TRUE,
     error |-> error, retryAfter |-> retryAfter]
Reject(strategy, ip, error, retryAfter) ==
    [strategy |-> strategy, ip |-> ip, status |-> 429, next |-> FALSE,
     error |-> error, retryAfter |-> retryAfter]

\* before the first invocation
NoResponse == [strategy |-> "", ip |-> "", status |-> 0, next |-> FALSE,
               error |-> "", retryAfter |-> -1]

\* one entry of hist: the clock value of the call, whether it created the
\* entry, the stored level before the call, the level after the refill or
\* leak step, the stored level and stored time after the call, the outcome
Call(t, first, pre, mid, post, stamp, r) ==
    [t |-> t, first |-> first, pre |-> pre, mid |-> mid, post |-> post,
     stamp |-> stamp, ok |-> r.next, retry |-> r.retryAfter]

\* the bucket strategies record every invocation of a key
Record(strategy, ip, call) ==
    [hist EXCEPT ![strategy][ip] = Append(@, call)]

\* the window strategies record the last two invocations of a key
RecordLastTwo(strategy, ip, call) ==
    [hist EXCEPT ![strategy][ip] =
        IF Len(@) = 0 THEN <<call>> ELSE <<@[Len(@)], call>>]

----------------------------------------------------------------------------
(* Fixed window counter: rate-limiters/fixed-window (src/unnamed/part_007) *)

windowTime == 15 * 60 * 1000
fwMaxRequests == 100

\* the entry a first request, or a request after the window, creates
FWNewAligned(t) == [count |-> 1, windowStart |-> t - (t % windowTime)]
FWNewUncounted(t) == [count |-> 0, windowStart |-> t]
FWNew(t) == [count |-> 1, windowStart |-> t]

\* now - entry.windowStart < windowTime
FWInWindowInclusive(entry, t) == t - entry.windowStart <= windowTime
FWInWindow(entry, t) == t - entry.windowStart < windowTime

\* entry.count < maxRequests
FWUnderLimitInclusive(entry) == entry.count <= fwMaxRequests
FWUnderLimit(entry) == entry.count < fwMaxRequests

\* Math.ceil((windowTime - (now - entry.windowStart)) / 1000)
FWRetryAfterRoundedDown(entry, t) == FloorDiv(windowTime - (t - entry.windowStart), 1000)
FWRetryAfter(entry, t) == CeilDiv(windowTime - (t - entry.windowStart), 1000)

\* position of this request among the requests of the key, as long as all of
\* them fell inside the window the key's first request opened; 0 afterwards
FWRun(ip, first) ==
    IF first THEN 1
    ELSE IF run[ip] > 0 /\ now - ipRequestCounts[ip].windowStart < windowTime
         THEN Min(run[ip] + 1, fwMaxRequests + 2)
         ELSE 0

fixedWindowRateLimiter(ip) ==
    /\ IF ~Has(ipRequestCounts, ip)
       THEN LET r == Continue("fixedWindow", ip)
                e == FWNew(now) IN
            /\ ipRequestCounts' = MapSet(ipRequestCounts, ip, e)
            /\ resp' = r
            /\ hist' = RecordLastTwo("fixedWindow", ip,
                   Call(now, TRUE, 0, 0, e.count, e.windowStart, r))
       ELSE LET entry == ipRequestCounts[ip] IN
            IF FWInWindow(entry, now)
            THEN IF FWUnderLimit(entry)
                 THEN LET r == Continue("fixedWindow", ip)
                          e == [entry EXCEPT !.count = @ + 1] IN
                      /\ ipRequestCounts' = MapSet(ipRequestCounts, ip, e)
                      /\ resp' = r
                      /\ hist' = RecordLastTwo("fixedWindow", ip,
                             Call(now, FALSE, entry.count, entry.count, e.count,
                                  e.windowStart, r))
                 ELSE LET r == Reject("fixedWindow", ip, "Too many requests",
                                      FWRetryAfter(entry, now)) IN
                      /\ ipRequestCounts' = ipRequestCounts
                      /\ resp' = r
                      /\ hist' = RecordLastTwo("fixedWindow", ip,
                             Call(now, FALSE, entry.count, entry.count, entry.count,
                                  entry.windowStart, r))
            ELSE LET r == Continue("fixedWindow", ip)
                     e == FWNew(now) IN
                 /\ ipRequestCounts' = MapSet(ipRequestCounts, ip, e)
                 /\ resp' = r
                 /\ hist' = RecordLastTwo("fixedWindow", ip,
                        Call(now, FALSE, entry.count, 0, e.count, e.windowStart, r))
    /\ run' = [run EXCEPT ![ip] = FWRun(ip, ~Has(ipRequestCounts, ip))]
    /\ UNCHANGED <<now, requestLogs, swcBuckets, tokenBuckets, buckets, admitted,
                 calls>>

----------------------------------------------------------------------------
(* Fixed window, one statement at a time: the invocations of part_007 when  *)
(* the statements of several of them may interleave                         *)

Procs == 1..RaceProcs

\* an invocation that is not running
Idle == [pc |-> "idle", ip |-> "", t |-> 0, entry |-> 0]

\* objs are the {count, windowStart} objects created so far, at tells which
\* object the Map holds under a key, nexts counts the next() calls made by
\* the invocations that worked on an object, raced tells whether a
\* statement of one invocation ever ran while another was in flight
NoCalls ==
    [objs |-> <<>>, at |-> <<>>, nexts |-> <<>>,
     procs |-> [p \in Procs |-> Idle], raced |-> FALSE]

\* the Map as the objects it refers to
MapOf(objs, at) == [ip \in DOMAIN at |-> objs[at[ip]]]

\* another invocation is in flight
Raced(p) == \E q \in Procs \ {p} : calls.procs[q].pc # "idle"

\* invocation p goes on at pc; the Map and its objects are untouched
FWGoto(p, pc, entry) ==
    /\ calls' = [calls EXCEPT !.procs[p].pc = pc, !.procs[p].entry = entry,
                              !.raced = @ \/ Raced(p)]
    /\ UNCHANGED <<ipRequestCounts, resp>>

\* invocation p ends with the outcome r, leaving the objects objs, the Map
\* at and the counts nexts of next() calls
FWReturn(p, r, objs, at, nexts) ==
    /\ calls' = [objs |-> objs, at |-> at, nexts |-> nexts,
                 procs |-> [calls.procs EXCEPT ![p] = Idle],
                 raced |-> calls.raced \/ Raced(p)]
    /\ ipRequestCounts' = MapOf(objs, at)
    /\ resp' = r

\* lines 12-13: const now = Date.now(); const ip = req.ip
FWEnter(p, ip) ==
    /\ calls.procs[p].pc = "idle"
    /\ calls' = [calls EXCEPT !.procs[p] = [pc |-> "has", ip |-> ip, t |-> now, entry |-> 0],
                              !.raced = @ \/ Raced(p)]
    /\ UNCHANGED <<ipRequestCounts, resp>>

\* line 15: if (!ipRequestCounts.has(ip))
FWHas(p) ==
    /\ calls.procs[p].pc = "has"
    /\ FWGoto(p, IF Has(calls.at, calls.procs[p].ip) THEN "get" ELSE "set", 0)

\* lines 16-17 and 36-37: ipRequestCounts.set(ip, {count: 1, windowStart: now});
\* return next()
FWSet(p) ==
    LET c == calls.procs[p] IN
    /\ c.pc = "set"
    /\ Len(calls.objs) < RaceMaxObjs
    /\ FWReturn(p, Continue("fixedWindow", c.ip),
                Append(calls.objs, FWNew(c.t)),
                MapSet(calls.at, c.ip, Len(calls.objs) + 1),
                Append(calls.nexts, 1))

\* line 20: const entry = ipRequestCounts.get(ip)
FWGet(p) ==
    /\ calls.procs[p].pc = "get"
    /\ FWGoto(p, "window", calls.at[calls.procs[p].ip])

\* line 23: if (now - entry.windowStart < windowTime)
FWWindow(p) ==
    LET c == calls.procs[p] IN
    /\ c.pc = "window"
    /\ FWGoto(p, IF FWInWindow(calls.objs[c.entry], c.t) THEN "limit" ELSE "set", c.entry)

\* line 24: if (entry.count < maxRequests), and lines 28-32 when it is not
FWLimit(p) ==
    LET c == calls.procs[p] IN
    /\ c.pc = "limit"
    /\ IF FWUnderLimit(calls.objs[c.entry])
       THEN FWGoto(p, "count", c.entry)
       ELSE FWReturn(p, Reject("fixedWindow", c.ip, "Too many requests",
                               FWRetryAfter(calls.objs[c.entry], c.t)),
                     calls.objs, calls.at, calls.nexts)

\* lines 25-26: entry.count++; return next()
FWCount(p) ==
    LET c == calls.procs[p] IN
    /\ c.pc = "count"
    /\ FWReturn(p, Continue("fixedWindow", c.ip),
                [calls.objs EXCEPT ![c.entry].count = @ + 1],
                calls.at,
                [calls.nexts EXCEPT ![c.entry] = @ + 1])

\* a window that started after the clock moved gets a few requests only
RaceRoom(ip) ==
    Has(ipRequestCounts, ip) =>
        \/ ipRequestCounts[ip].windowStart = 0
        \/ ipRequestCounts[ip].count < RaceFew

\* one statement of one invocation
FWStatement ==
    /\ \E p \in Procs :
           \/ \E ip \in OneKey : RaceRoom(ip) /\ FWEnter(p, ip)
           \/ FWHas(p) \/ FWSet(p) \/ FWGet(p) \/ FWWindow(p) \/ FWLimit(p) \/ FWCount(p)
    /\ UNCHANGED <<now, requestLogs, swcBuckets, tokenBuckets, buckets, hist, run,
                   admitted, watch, throttle, chain>>

----------------------------------------------------------------------------
(* Sliding window log: rate-limiters/sliding-window (src/unnamed/part_008) *)

windowMs == 15 * 50 * 1000
slMaxRequests == 100

\* the filter's predicate: now - ts <= windowMs
SLInWindowStrict(ts, t) == t - ts < windowMs
SLInWindow(ts, t) == t - ts <= windowMs

\* timeStamps.filter(ts => now - ts <= windowMs)
SLFilterKeepsAll(timeStamps, t) == timeStamps
SLFilter(timeStamps, t) == SelectSeq(timeStamps, LAMBDA ts : SLInWindow(ts, t))

\* updatedTimeStamps.length > maxRequests
SLOverLimitInclusive(updatedTimeStamps) == Len(updatedTimeStamps) >= slMaxRequests
SLOverLimit(updatedTimeStamps) == Len(updatedTimeStamps) > slMaxRequests

\* Math.ceil((windowMs - (now - updatedTimeStamps[0])) / 1000)
SLRetryAfter(updatedTimeStamps, t) == CeilDiv(windowMs - (t - updatedTimeStamps[1]), 1000)

\* the admitted timestamps of the trailing interval [t - windowMs, t]
Trailing(stamps, t) == SelectSeq(stamps, LAMBDA ts : t - ts <= windowMs)

slidingWindowRateLimiter(ip) ==
    /\ IF ~Has(requestLogs, ip)
       THEN LET r == Continue("slidingLog", ip) IN
            /\ requestLogs' = MapSet(requestLogs, ip, <<now>>)
            /\ resp' = r
            /\ hist' = RecordLastTwo("slidingLog", ip, Call(now, TRUE, 0, 0, 1, now, r))
            /\ admitted' = [admitted EXCEPT ![ip] = Append(Trailing(@, now), now)]
       ELSE LET timeStamps == requestLogs[ip]
                updatedTimeStamps == Append(SLFilter(timeStamps, now), now) IN
            /\ Len(updatedTimeStamps) <= MaxLog
            /\ requestLogs' = MapSet(requestLogs, ip, updatedTimeStamps)
            /\ IF SLOverLimit(updatedTimeStamps)
               THEN LET r == Reject("slidingLog", ip, "Too many requests",
                                    SLRetryAfter(updatedTimeStamps, now)) IN
                    /\ resp' = r
                    /\ hist' = RecordLastTwo("slidingLog", ip,
                           Call(now, FALSE, Len(timeStamps), Len(updatedTimeStamps) - 1,
                                Len(updatedTimeStamps), updatedTimeStamps[1], r))
                    /\ admitted' = [admitted EXCEPT ![ip] = Trailing(@, now)]
               ELSE LET r == Continue("slidingLog", ip) IN
                    /\ resp' = r
                    /\ hist' = RecordLastTwo("slidingLog", ip,
                           Call(now, FALSE, Len(timeStamps), Len(updatedTimeStamps) - 1,
                                Len(updatedTimeStamps), updatedTimeStamps[1], r))
                    /\ admitted' = [admitted EXCEPT ![ip] = Append(Trailing(@, now), now)]
    /\ UNCHANGED <<now, ipRequestCounts, swcBuckets, tokenBuckets, buckets, run,
                 calls>>

----------------------------------------------------------------------------
(* Sliding window counter: rate-limiters/sliding-window-counter.js *)

windowSize == 60 * 1000
swcMaxRequests == 20

\* Math.floor(now / windowSize) * windowSize
SWCWindowStart(t) == FloorDiv(t, windowSize) * windowSize

\* now - windowStart
timeIntoWindow(t) == t - SWCWindowStart(t)

\* the entry a first request creates
SWCNew(t) ==
    [current  |-> [timestamp |-> SWCWindowStart(t), count |-> 1],
     previous |-> [timestamp |-> SWCWindowStart(t) - windowSize, count |-> 0]]

\* the shift of the windows, or the increment of the current count
SWCAdvance(entry, t) ==
    IF entry.current.timestamp # SWCWindowStart(t)
    THEN [current  |-> [timestamp |-> SWCWindowStart(t), count |-> 1],
          previous |-> entry.current]
    ELSE [entry EXCEPT !.current.count = @ + 1]

\* The numbers of lines 17 and 41 are IEEE 754 doubles.  A double x >= 0 is
\* held as the integer x * Base^FracDigits, written with NL digits of base
\* Base, the most significant first; every operation computes the exact
\* result and rounds it to Mantissa significant bits, ties to even.
DigitBits == 15
Base == 2^DigitBits
NL == 7
FracDigits == 5
Mantissa == 53
Digits == 1..NL

\* the digits d[1], ..., d[NL] as a sequence
FDigits(d) == SubSeq(d, 1, NL)

\* the digits 1..i of the number given by digit values outside 0..Base-1,
\* carry being the carry into digit i
RECURSIVE FCarry(_, _, _)
FCarry(raw, i, carry) ==
    IF i = 0 THEN <<>>
    ELSE Append(FCarry(raw, i - 1, (raw[i] + carry) \div Base), (raw[i] + carry) % Base)
FNorm(raw) == FCarry(FDigits(raw), NL, 0)

\* the exact sum, difference (x >= y), multiple, and the integer k
FAdd(x, y) == FNorm([i \in Digits |-> x[i] + y[i]])
FSub(x, y) == FNorm([i \in Digits |-> x[i] - y[i]])
FTimes(x, k) == FNorm([i \in Digits |-> x[i] * k])
FInt(k) == FNorm([i \in Digits |-> IF i = NL - FracDigits THEN k ELSE 0])

\* x < y
FLess(x, y) == \E i \in Digits : x[i] < y[i] /\ \A j \in 1..(i - 1) : x[j] = y[j]

\* long division of the digits 1..i of x by d: the quotient and the remainder
RECURSIVE FDivide(_, _, _)
FDivide(x, d, i) ==
    IF i = 0 THEN [quot |-> <<>>, rem |-> 0]
    ELSE LET upper == FDivide(x, d, i - 1)
             v     == upper.rem * Base + x[i]
         IN  [quot |-> Append(upper.quot, v \div d), rem |-> v % d]

\* the number of significant bits of x
BitLen(d) == CHOOSE n \in 1..DigitBits : 2^(n - 1) <= d /\ d < 2^n
FBits(x) ==
    IF \A i \in Digits : x[i] = 0 THEN 0
    ELSE LET top == CHOOSE i \in Digits : x[i] # 0 /\ \A j \in 1..(i - 1) : x[j] = 0
         IN  (NL - top) * DigitBits + BitLen(x[top])

\* the number whose only set bit is bit n
FPow2(n) ==
    FDigits([i \in Digits |-> IF i = NL - (n \div DigitBits) THEN 2^(n % DigitBits) ELSE 0])

\* round to nearest, ties to even: x, followed by more nonzero bits when
\* sticky, rounded to Mantissa significant bits
FRound(x, sticky) ==
    LET drop == FBits(x) - Mantissa IN
    IF drop <= 0 THEN x
    ELSE LET r    == drop % DigitBits
             cut  == NL - (drop \div DigitBits)
             low  == FDigits([i \in Digits |-> IF i < cut THEN 0
                                               ELSE IF i = cut THEN x[i] % 2^r ELSE x[i]])
             kept == FDigits([i \in Digits |-> x[i] - low[i]])
             half == FPow2(drop - 1)
             odd  == (x[cut] \div 2^r) % 2 = 1
             up   == FLess(half, low) \/ (low = half /\ (sticky \/ odd))
         IN  IF up THEN FAdd(kept, FPow2(drop)) ELSE kept

\* line 17: timeIntoWindow / windowSize
weight(t) ==
    LET q == FDivide(FInt(timeIntoWindow(t)), windowSize, NL)
    IN  FRound(q.quot, q.rem # 0)

\* line 41: entry.current.count * (1 - weight) + entry.previous.count * weight
totalCountSwapped(entry, t) ==
    LET w == weight(t)
        v == FRound(FSub(FInt(1), w), FALSE)
    IN  FRound(FAdd(FRound(FTimes(w, entry.current.count), FALSE),
                    FRound(FTimes(v, entry.previous.count), FALSE)), FALSE)
totalCount(entry, t) ==
    LET w == weight(t)
        v == FRound(FSub(FInt(1), w), FALSE)
    IN  FRound(FAdd(FRound(FTimes(v, entry.current.count), FALSE),
                    FRound(FTimes(w, entry.previous.count), FALSE)), FALSE)

\* totalCount > maxRequests
SWCOverLimit(total) == FLess(FInt(swcMaxRequests), total)

\* one entry of hist of the sliding window counter: the clock value, the
\* bucket of the clock value, the counts the estimate was taken from, the
\* estimate (no digits when none was computed), the outcome
SWCCall(t, first, entry, total, r) ==
    [t |-> t, first |-> first, bucket |-> SWCWindowStart(t),
     cur |-> entry.current.count, prev |-> entry.previous.count,
     total |-> total,
     ok |-> r.next, retry |-> r.retryAfter]

slidingWindowCounterRateLimiter(ip) ==
    /\ IF ~Has(swcBuckets, ip)
       THEN LET r == Continue("slidingCounter", ip)
                e == SWCNew(now) IN
            /\ swcBuckets' = MapSet(swcBuckets, ip, e)
            /\ resp' = r
            /\ hist' = RecordLastTwo("slidingCounter", ip, SWCCall(now, TRUE, e, <<>>, r))
       ELSE LET entry == SWCAdvance(swcBuckets[ip], now)
                total == totalCount(entry, now) IN
            /\ entry.current.count <= MaxCount
            /\ swcBuckets' = MapSet(swcBuckets, ip, entry)
            /\ IF SWCOverLimit(total)
               THEN LET r == Reject("slidingCounter", ip, "Too many requests",
                                    CeilDiv(windowSize, 1000)) IN
                    /\ resp' = r
                    /\ hist' = RecordLastTwo("slidingCounter", ip,
                                             SWCCall(now, FALSE, entry, total, r))
               ELSE LET r == Continue("slidingCounter", ip) IN
                    /\ resp' = r
                    /\ hist' = RecordLastTwo("slidingCounter", ip,
                                             SWCCall(now, FALSE, entry, total, r))
    /\ UNCHANGED <<now, ipRequestCounts, requestLogs, tokenBuckets, buckets, run, admitted,
                 calls>>

----------------------------------------------------------------------------
(* Token bucket: rate-limiters/token-bucket.js *)

bucketCapacity == 10
refillRate == 1

\* the entry a first request creates
TBNewMissingDecrement(t) == [tokens |-> bucketCapacity, lastRefill |-> t]
TBNew(t) == [tokens |-> bucketCapacity - 1, lastRefill |-> t]

\* Math.floor(timeElapsed * refillRate), timeElapsed = (now - lastRefill) / 1000
tokensToAddRoundedUp(bucket, t) == CeilDiv((t - bucket.lastRefill) * refillRate, 1000)
tokensToAdd(bucket, t) == FloorDiv((t - bucket.lastRefill) * refillRate, 1000)

\* the refill step: both fields of the stored bucket are assigned
TBRefillUnclamped(bucket, t) ==
    [tokens     |-> bucket.tokens + tokensToAdd(bucket, t),
     lastRefill |-> IF tokensToAdd(bucket, t) > 0 THEN t ELSE bucket.lastRefill]
TBRefillAlwaysStamps(bucket, t) ==
    [tokens     |-> Min(bucketCapacity, bucket.tokens + tokensToAdd(bucket, t)),
     lastRefill |-> t]
TBRefill(bucket, t) ==
    [tokens     |-> Min(bucketCapacity, bucket.tokens + tokensToAdd(bucket, t)),
     lastRefill |-> IF tokensToAdd(bucket, t) > 0 THEN t ELSE bucket.lastRefill]

\* bucket.tokens--
TBConsumeTwo(bucket) == [bucket EXCEPT !.tokens = @ - 2]
TBConsume(bucket) == [bucket EXCEPT !.tokens = @ - 1]

tokenBucketRateLimiter(ip) ==
    /\ Len(hist["tokenBucket"][ip]) < MaxReqs
    /\ IF ~Has(tokenBuckets, ip)
       THEN LET r == Continue("tokenBucket", ip)
                b == TBNew(now) IN
            /\ tokenBuckets' = MapSet(tokenBuckets, ip, b)
            /\ resp' = r
            /\ hist' = Record("tokenBucket", ip,
                   Call(now, TRUE, bucketCapacity, bucketCapacity, b.tokens, b.lastRefill, r))
       ELSE LET old == tokenBuckets[ip]
                bucket == TBRefill(old, now) IN
            IF bucket.tokens > 0
            THEN LET r == Continue("tokenBucket", ip)
                     b == TBConsume(bucket) IN
                 /\ tokenBuckets' = MapSet(tokenBuckets, ip, b)
                 /\ resp' = r
                 /\ hist' = Record("tokenBucket", ip,
                        Call(now, FALSE, old.tokens, bucket.tokens, b.tokens, b.lastRefill, r))
            ELSE LET r == Reject("tokenBucket", ip,
                                 "Too many requests - token bucket empty", 1) IN
                 /\ tokenBuckets' = MapSet(tokenBuckets, ip, bucket)
                 /\ resp' = r
                 /\ hist' = Record("tokenBucket", ip,
                        Call(now, FALSE, old.tokens, bucket.tokens, bucket.tokens,
                             bucket.lastRefill, r))
    /\ UNCHANGED <<now, ipRequestCounts, requestLogs, swcBuckets, buckets, run, admitted,
                 calls>>

----------------------------------------------------------------------------
(* Leaky bucket: rate-limiters/leaky-token-bucket.js *)

queueCapacity == 10
leakRate == 1000

\* the entry a first request creates
LBNewEmpty(t) == [lastLeakTime |-> t, queue |-> 0]
LBNew(t) == [lastLeakTime |-> t, queue |-> 1]

\* Math.floor(elapsed / leakRate), elapsed = now - lastLeakTime
leaked(bucket, t) == FloorDiv(t - bucket.lastLeakTime, leakRate)

\* the leak step: both fields of the stored bucket are assigned
LBLeakKeepsTime(bucket, t) ==
    [lastLeakTime |-> bucket.lastLeakTime,
     queue        |-> Max(0, bucket.queue - leaked(bucket, t))]
LBLeak(bucket, t) ==
    [lastLeakTime |-> IF leaked(bucket, t) > 0 THEN t ELSE bucket.lastLeakTime,
     queue        |-> Max(0, bucket.queue - leaked(bucket, t))]

\* bucket.queue < queueCapacity
LBHasRoomInclusive(bucket) == bucket.queue <= queueCapacity
LBHasRoom(bucket) == bucket.queue < queueCapacity

leakyBucketRateLimiter(ip) ==
    /\ Len(hist["leakyBucket"][ip]) < MaxReqs
    /\ IF ~Has(buckets, ip)
       THEN LET r == Continue("leakyBucket", ip)
                b == LBNew(now) IN
            /\ buckets' = MapSet(buckets, ip, b)
            /\ resp' = r
            /\ hist' = Record("leakyBucket", ip,
                   Call(now, TRUE, 0, 0, b.queue, b.lastLeakTime, r))
       ELSE LET old == buckets[ip]
                bucket == LBLeak(old, now) IN
            IF LBHasRoom(bucket)
            THEN LET r == Continue("leakyBucket", ip)
                     b == [bucket EXCEPT !.queue = @ + 1] IN
                 /\ buckets' = MapSet(buckets, ip, b)
                 /\ resp' = r
                 /\ hist' = Record("leakyBucket", ip,
                        Call(now, FALSE, old.queue, bucket.queue, b.queue, b.lastLeakTime, r))
            ELSE LET r == Reject("leakyBucket", ip,
                                 "Too many requests - bucket overflow",
                                 CeilDiv(leakRate, 1000)) IN
                 /\ buckets' = MapSet(buckets, ip, bucket)
                 /\ resp' = r
                 /\ hist' = Record("leakyBucket", ip,
                        Call(now, FALSE, old.queue, bucket.queue, bucket.queue,
                             bucket.lastLeakTime, r))
    /\ UNCHANGED <<now, ipRequestCounts, requestLogs, swcBuckets, tokenBuckets, run, admitted,
                 calls>>

----------------------------------------------------------------------------
(* Delaying throttle: API-Throttling/middleware.js *)

MAX_REQUESTS == 5
TIME_WINDOW == 1000

\* filter(ts => t - ts < width): the clock values of stamps that lie less
\* than width before t
WithinInclusive(stamps, t, width) == SelectSeq(stamps, LAMBDA ts : t - ts <= width)
Within(stamps, t, width) == SelectSeq(stamps, LAMBDA ts : t - ts < width)

\* the middleware returned without next() and without a response
Defer(strategy, ip) ==
    [strategy |-> strategy, ip |-> ip, status |-> 0, next |-> FALSE,
     error |-> "", retryAfter |-> -1]

\* TIME_WINDOW - (currentTime - timestamps[0])
ThDelay(timestamps, t) == TIME_WINDOW - (t - timestamps[1])

\* setTimeout(callback, delay): one pending callback for request id
SetTimeoutNone(pending, id, ip, due) == pending
SetTimeout(pending, id, ip, due) == pending \cup {[id |-> id, ip |-> ip, due |-> due]}

\* one entry of reqs: the key and arrival time of a request, whether it was
\* deferred, how often its next() has been called, the filtered timestamps
\* it found, and the time and the stored log of the call that passed it on
\* (at is -1 while it waits)
Arrival(ip, t, timestamps, deferred) ==
    [ip |-> ip, t |-> t, deferred |-> deferred, nexts |-> IF deferred THEN 0 ELSE 1,
     found |-> timestamps,
     at |-> IF deferred THEN -1 ELSE t,
     log |-> IF deferred THEN <<>> ELSE Append(timestamps, t)]

throttleMiddleware(ip) ==
    LET timestamps == Within(IF Has(IPMap, ip) THEN IPMap[ip] ELSE <<>>, now, TIME_WINDOW) IN
    /\ IF Len(timestamps) < MAX_REQUESTS
       THEN /\ IPMap' = MapSet(IPMap, ip, Append(timestamps, now))
            /\ timers' = timers
            /\ reqs' = Append(reqs, Arrival(ip, now, timestamps, FALSE))
            /\ passed' = [passed EXCEPT ![ip] = Append(Within(@, now, TIME_WINDOW), now)]
            /\ resp' = Continue("throttle", ip)
       ELSE /\ IPMap' = MapSet(IPMap, ip, timestamps)
            /\ timers' = SetTimeout(timers, Len(reqs) + 1, ip,
                                    now + ThDelay(timestamps, now))
            /\ reqs' = Append(reqs, Arrival(ip, now, timestamps, TRUE))
            /\ passed' = passed
            /\ resp' = Defer("throttle", ip)
    /\ UNCHANGED <<now, stores, hist, run, admitted, calls>>

\* IPMap.get(ip) in the callback: the array the Map holds when it runs
IPMapGetCaptured(map, timer) == reqs[timer.id].found
IPMapGet(map, timer) == map[timer.ip]

\* the callback of setTimeout.  Node counts the delay from the time of the
\* event loop's turn, which can lie before the Date.now() of line 21, so the
\* callback runs when Date.now() is as much as ThEarly before due, or later
throttleTimeout(timer) ==
    /\ timer \in timers
    /\ now >= timer.due - ThEarly
    /\ IPMap' = MapSet(IPMap, timer.ip,
                       Append(Within(IPMapGet(IPMap, timer), now, TIME_WINDOW), now))
    /\ timers' = timers \ {timer}
    /\ reqs' = [reqs EXCEPT ![timer.id].nexts = @ + 1,
                             ![timer.id].at = now,
                             ![timer.id].log = IPMap'[timer.ip]]
    /\ passed' = [passed EXCEPT ![timer.ip] = Append(Within(@, now, TIME_WINDOW), now)]
    /\ resp' = Continue("throttle", timer.ip)
    /\ UNCHANGED <<now, stores, hist, run, admitted, calls>>

----------------------------------------------------------------------------
(* The chain of rate-limiting/server.js *)

\* app.use(...) in the order of registration
ChainOrder ==
    <<"fixedWindow", "slidingLog", "slidingCounter", "tokenBucket", "leakyBucket">>

\* the middleware registered under a name
Middleware(name, ip) ==
    CASE name = "fixedWindow"    -> fixedWindowRateLimiter(ip)
      [] name = "slidingLog"     -> slidingWindowRateLimiter(ip)
      [] name = "slidingCounter" -> slidingWindowCounterRateLimiter(ip)
      [] name = "tokenBucket"    -> tokenBucketRateLimiter(ip)
      [] name = "leakyBucket"    -> leakyBucketRateLimiter(ip)

\* no request is on its way: at is the position of the middleware that runs
\* next (0: none), verdicts are the outcomes of the middlewares that ran for
\* the last request, handled tells whether app.get's handler ran for it,
\* entry holds the five stores as the last request found them
NoRequest ==
    [ip |-> "", at |-> 0, verdicts |-> <<>>, handled |-> FALSE,
     entry |-> <<<<>>, <<>>, <<>>, <<>>, <<>>>>]

\* where the request goes after middleware i answered r: next() hands it
\* to the middleware registered after i, a response ends its way
NextStageAnyway(i, r) == IF i < Len(ChainOrder) THEN i + 1 ELSE 0
NextStage(i, r) == IF r.next /\ i < Len(ChainOrder) THEN i + 1 ELSE 0

\* middleware i runs for the request of ip; after the last middleware's
\* next() the handler of app.get runs
ChainStage(i, ip, before) ==
    /\ Middleware(ChainOrder[i], ip)
    /\ chain' = [ip |-> ip, at |-> NextStage(i, resp'),
                 verdicts |-> Append(before, resp'),
                 handled |-> (i = Len(ChainOrder) /\ resp'.next),
                 entry |-> IF i = 1 THEN stores ELSE chain.entry]

\* a request enters the chain, or the request on its way reaches the next
\* middleware
ChainStep ==
    \E ip \in OneKey :
        IF chain.at = 0
        THEN ChainStage(1, ip, <<>>)
        ELSE ip = chain.ip /\ ChainStage(chain.at, ip, chain.verdicts)

----------------------------------------------------------------------------
(* The clock and the specifications *)

\* records the clock value of the invocation of ip that has just run when it
\* called next(), and forgets the clock values width or more before it
Observe(ip, width) ==
    passed' = [passed EXCEPT ![ip] =
                  IF resp'.next THEN Append(Within(@, now, width), now)
                  ELSE Within(@, now, width)]

\* Date.now() moves on between two invocations
Tick(steps, last) ==
    \E d \in steps :
        /\ now + d <= last
        /\ now' = now + d
        /\ UNCHANGED <<stores, resp, hist, run, admitted, watch, throttle, chain, calls>>

\* the clock of the chain runs
SecondTick == Tick(ChainSteps, ChainMaxNow)

Init ==
    /\ now = 0
    /\ ipRequestCounts = <<>>
    /\ requestLogs = <<>>
    /\ swcBuckets = <<>>
    /\ tokenBuckets = <<>>
    /\ buckets = <<>>
    /\ resp = NoResponse
    /\ hist = [s \in Strategies |-> [ip \in Keys |-> <<>>]]
    /\ run = [ip \in Keys |-> 0]
    /\ admitted = [ip \in Keys |-> <<>>]
    /\ passed = [ip \in Keys |-> <<>>]
    /\ retryHints = [ip \in Keys |-> [hints |-> {}, before |-> -1]]
    /\ IPMap = <<>>
    /\ timers = {}
    /\ reqs = <<>>
    /\ chain = NoRequest
    /\ calls = NoCalls

TBRequest ==
    \E ip \in OneKey : tokenBucketRateLimiter(ip) /\ UNCHANGED <<watch, throttle, chain>>
TBTick == Tick(BucketSteps, MaxNow)
TBNext == TBRequest \/ TBTick
SpecTB == Init /\ [][TBNext]_vars

FWRequest ==
    \E ip \in OneKey : fixedWindowRateLimiter(ip) /\ UNCHANGED <<watch, throttle, chain>>
FWTick == Tick(FWSteps, FWMaxNow)
FWNext == FWRequest \/ FWTick
SpecFW == Init /\ [][FWNext]_vars

\* records the hint of the invocation of ip that has just run when it was
\* rejected: the clock value from which the hint lets the caller retry and
\* the window that rejected; before is the window the invocation found
ObserveHint(ip) ==
    retryHints' = [retryHints EXCEPT ![ip] =
        [hints  |-> IF resp'.next THEN @.hints
                    ELSE @.hints \cup {[due |-> now + 1000 * resp'.retryAfter,
                                        windowStart |-> ipRequestCounts[ip].windowStart]},
         before |-> IF Has(ipRequestCounts, ip)
                    THEN ipRequestCounts[ip].windowStart ELSE -1]]

\* the fixed window with the retry hints observed
FWRetryRequest ==
    \E ip \in OneKey :
        fixedWindowRateLimiter(ip) /\ ObserveHint(ip) /\ UNCHANGED <<passed, throttle, chain>>
FWRetryNext == FWRetryRequest \/ FWTick
SpecFWRetry == Init /\ [][FWRetryNext]_vars

\* the fixed window with the admissions of the last windowTime observed,
\* both ends of the interval included
FWBurstRequest ==
    \E ip \in OneKey :
        /\ fixedWindowRateLimiter(ip)
        /\ Observe(ip, windowTime + 1)
        /\ UNCHANGED <<retryHints, throttle, chain>>
FWBurstTick == Tick(FWBurstSteps, FWBurstMaxNow)
FWBurstNext == FWBurstRequest \/ FWBurstTick
SpecFWBurst == Init /\ [][FWBurstNext]_vars

SLRequest ==
    \E ip \in OneKey : slidingWindowRateLimiter(ip) /\ UNCHANGED <<watch, throttle, chain>>
SLTick == Tick(SLSteps, SLMaxNow)
SLNext == SLRequest \/ SLTick
SpecSL == Init /\ [][SLNext]_vars

SWCRequest ==
    \E ip \in OneKey : slidingWindowCounterRateLimiter(ip) /\ UNCHANGED <<watch, throttle, chain>>
\* the clock advances open at the present clock value
SWCAdvances == SWCSteps \cup (IF timeIntoWindow(now) = 0 THEN SWCOffsets ELSE {})
SWCTick == Tick(SWCAdvances, SWCMaxNow)
SWCNext == SWCRequest \/ SWCTick
SpecSWC == Init /\ [][SWCNext]_vars

\* the sliding window counter with the admissions of the trailing window observed
SWCRateRequest ==
    \E ip \in OneKey :
        slidingWindowCounterRateLimiter(ip) /\ Observe(ip, windowSize)
        /\ UNCHANGED <<retryHints, throttle, chain>>
SWCRateTick == Tick(SWCRateSteps, SWCRateMaxNow)
SWCRateNext == SWCRateRequest \/ SWCRateTick
SpecSWCRate == Init /\ [][SWCRateNext]_vars

\* the throttle: requests arrive while a timer started then can still run
ThRequest ==
    \E ip \in OneKey :
        /\ Len(reqs) < ThMaxReqs
        /\ now + TIME_WINDOW <= ThMaxNow
        /\ throttleMiddleware(ip)
        /\ UNCHANGED <<retryHints, chain>>
ThFire == \E timer \in timers : throttleTimeout(timer) /\ UNCHANGED <<retryHints, chain>>
\* the clock of the throttle runs: it moves by a step of ThSteps, and ends at
\* ThMaxNow, by which every callback is due
ThTick ==
    \E d \in ThSteps :
        /\ now < ThMaxNow
        /\ now' = Min(now + d, ThMaxNow)
        /\ UNCHANGED <<stores, resp, hist, run, admitted, watch, throttle, chain, calls>>
ThNext == ThRequest \/ ThFire \/ ThTick
SpecThrottle == Init /\ [][ThNext]_vars
\* the clock moves on and the event loop runs the callbacks that are due
SpecThrottleFair == SpecThrottle /\ WF_vars(ThTick) /\ WF_vars(ThFire)

\* the five middlewares in a chain; each reads Date.now() itself, so the
\* clock moves between requests and between two middlewares of one request
ChainRequest == ChainStep /\ UNCHANGED <<watch, throttle>>
ChainTick == SecondTick
ChainNext == ChainRequest \/ ChainTick
SpecChain == Init /\ [][ChainNext]_vars

LBRequest ==
    \E ip \in OneKey : leakyBucketRateLimiter(ip) /\ UNCHANGED <<watch, throttle, chain>>
LBTick == Tick(BucketSteps, MaxNow)
LBNext == LBRequest \/ LBTick
SpecLB == Init /\ [][LBNext]_vars

\* any one of the five middlewares, mounted alone: the first request picks
\* the strategy of the run
NoneBut(store) == \A i \in 1..Len(stores) : stores[i] # store => stores[i] = <<>>
AnyFW == NoneBut(ipRequestCounts) /\ (FWRequest \/ (ipRequestCounts # <<>> /\ FWTick))
AnySL == NoneBut(requestLogs) /\ (SLRequest \/ (requestLogs # <<>> /\ SLTick))
AnySWC == NoneBut(swcBuckets) /\ (SWCRequest \/ (swcBuckets # <<>> /\ SWCTick))
AnyTB == NoneBut(tokenBuckets) /\ (TBRequest \/ (tokenBuckets # <<>> /\ SecondTick))
AnyLB == NoneBut(buckets) /\ (LBRequest \/ (buckets # <<>> /\ SecondTick))
\* the three strategies that have a branch that only rejects, each mounted
\* alone, the buckets on the half-second clock
FrameTB == NoneBut(tokenBuckets) /\ (TBRequest \/ (tokenBuckets # <<>> /\ TBTick))
FrameLB == NoneBut(buckets) /\ (LBRequest \/ (buckets # <<>> /\ LBTick))
FrameNext == AnyFW \/ FrameTB \/ FrameLB
SpecFrame == Init /\ [][FrameNext]_vars

\* two clients: each strategy mounted alone and called with either key, the
\* requests of the two keys in any order
IsoTick == Tick(ChainSteps, IsoMaxNow)
\* the second client sends a few requests per window only
IsoRoom(ip, size) == ip = "ip1" \/ size < IsoFew
IsoFW ==
    /\ NoneBut(ipRequestCounts)
    /\ \/ \E ip \in Keys :
              /\ IsoRoom(ip, IF Has(ipRequestCounts, ip) THEN ipRequestCounts[ip].count ELSE 0)
              /\ fixedWindowRateLimiter(ip)
              /\ UNCHANGED <<watch, throttle, chain>>
       \/ ipRequestCounts # <<>> /\ FWBurstTick
IsoSL ==
    /\ NoneBut(requestLogs)
    /\ \/ \E ip \in Keys :
              /\ IsoRoom(ip, IF Has(requestLogs, ip) THEN Len(requestLogs[ip]) ELSE 0)
              /\ slidingWindowRateLimiter(ip)
              /\ UNCHANGED <<watch, throttle, chain>>
       \/ requestLogs # <<>> /\ Tick({windowMs + 1}, windowMs + 1)
IsoSWC ==
    /\ NoneBut(swcBuckets)
    /\ \/ \E ip \in Keys :
              /\ IsoRoom(ip, IF Has(swcBuckets, ip) THEN swcBuckets[ip].current.count ELSE 0)
              /\ slidingWindowCounterRateLimiter(ip)
              /\ UNCHANGED <<watch, throttle, chain>>
       \/ swcBuckets # <<>> /\ SWCRateTick
IsoTB ==
    /\ NoneBut(tokenBuckets)
    /\ \/ \E ip \in Keys :
              /\ Len(hist["tokenBucket"][ip]) < IsoMaxReqs
              /\ tokenBucketRateLimiter(ip)
              /\ UNCHANGED <<watch, throttle, chain>>
       \/ tokenBuckets # <<>> /\ IsoTick
IsoLB ==
    /\ NoneBut(buckets)
    /\ \/ \E ip \in Keys :
              /\ Len(hist["leakyBucket"][ip]) < IsoMaxReqs
              /\ leakyBucketRateLimiter(ip)
              /\ UNCHANGED <<watch, throttle, chain>>
       \/ buckets # <<>> /\ IsoTick
IsoNext == IsoFW \/ IsoSL \/ IsoSWC \/ IsoTB \/ IsoLB
SpecIso == Init /\ [][IsoNext]_vars

\* the fixed window with interleaving invocations; the clock passes the end
\* of the first window once
RaceTick == Tick({windowTime}, windowTime)
RaceNext == FWStatement \/ RaceTick
SpecRace == Init /\ [][RaceNext]_vars

AnyNext == AnyFW \/ AnySL \/ AnySWC \/ AnyTB \/ AnyLB
SpecAny == Init /\ [][AnyNext]_vars

----------------------------------------------------------------------------
(* Sliding window log claims *)

SLHist(ip) == hist["slidingLog"][ip]

\* C1: for every key, the admitted requests whose timestamp lies in the
\* trailing interval of length windowMs that ends at the current time never
\* number more than maxRequests; once maxRequests of them are in the window
\* no further request is admitted while the oldest is still inside it.
C1_SlidingLogBound ==
    \A ip \in Keys :
        /\ Len(Trailing(admitted[ip], now)) <= slMaxRequests
        /\ Len(admitted[ip]) <= slMaxRequests
        /\ \A i \in 1..Len(SLHist(ip)) :
               SLHist(ip)[i].ok => SLHist(ip)[i].post <= slMaxRequests

\* maxRequests admissions spread over both ends of a window that the clock
\* has just filled exactly, and a further request rejected
C1_Witness ==
    \E ip \in Keys :
        /\ Len(Trailing(admitted[ip], now)) = slMaxRequests
        /\ admitted[ip][1] < admitted[ip][slMaxRequests]
        /\ now - admitted[ip][1] = windowMs
        /\ ~SLHist(ip)[Len(SLHist(ip))].ok
        /\ SLHist(ip)[Len(SLHist(ip))].t = now

\* C19: if a request of a key is rejected with retryAfter = r and the key
\* sends nothing else in between, the retry issued exactly r seconds after
\* the rejection is admitted.
C19_RetryAdmitted ==
    \A ip \in Keys :
        (/\ Len(SLHist(ip)) = 2
         /\ ~SLHist(ip)[1].ok
         /\ SLHist(ip)[2].t = SLHist(ip)[1].t + 1000 * SLHist(ip)[1].retry) =>
            SLHist(ip)[2].ok

----------------------------------------------------------------------------
(* Fixed window claims *)

FWHist(ip) == hist["fixedWindow"][ip]
FWLast(ip) == FWHist(ip)[Len(FWHist(ip))]

\* C2: of the requests of a new key that all fall inside one window the first
\* maxRequests are admitted and the next one is rejected with retryAfter =
\* ceil((windowTime - (now - windowStart)) / 1000), which is 900 for an
\* instant burst and a window of 900000 ms.
C2_FixedWindowBurst ==
    \A ip \in Keys :
        run[ip] > 0 =>
            /\ fwMaxRequests >= 1
            /\ run[ip] <= fwMaxRequests =>
                   FWLast(ip).ok /\ ipRequestCounts[ip].count = run[ip]
            /\ run[ip] = fwMaxRequests + 1 =>
                   /\ ~FWLast(ip).ok
                   /\ ipRequestCounts[ip].count = fwMaxRequests
                   /\ FWLast(ip).stamp = ipRequestCounts[ip].windowStart
                   /\ FWLast(ip).retry =
                          CeilDiv(windowTime - (FWLast(ip).t - FWLast(ip).stamp), 1000)
                   /\ (FWLast(ip).t = FWLast(ip).stamp /\ windowTime = 900000) =>
                          FWLast(ip).retry = 900

\* the request after the last admitted one, rejected part of a second into
\* the window's remaining time
C2_Witness ==
    \E ip \in Keys :
        /\ run[ip] = fwMaxRequests + 1
        /\ ~FWLast(ip).ok
        /\ (windowTime - (FWLast(ip).t - FWLast(ip).stamp)) % 1000 # 0
        /\ FWLast(ip).retry * 1000 > windowTime - (FWLast(ip).t - FWLast(ip).stamp)

\* C18 as stated: if a request of a key was rejected with retryAfter = r, a
\* request of that key issued at least r seconds after it is admitted,
\* whatever other requests of the key arrived in between.
C18_Original ==
    \A ip \in Keys : \A h \in retryHints[ip].hints :
        (Len(FWHist(ip)) > 0 /\ FWLast(ip).t >= h.due) => FWLast(ip).ok

\* C18 as amended: a request issued at least r seconds after the rejection
\* that still finds the window that rejected (no request of the key arrived
\* between the end of that window and it) is admitted: it finds the window
\* elapsed and starts a new window with count 1.
C18_RetryAdmitted ==
    \A ip \in Keys : \A h \in retryHints[ip].hints :
        (/\ Len(FWHist(ip)) > 0
         /\ FWLast(ip).t >= h.due
         /\ retryHints[ip].before = h.windowStart) =>
            /\ h.due >= h.windowStart + windowTime
            /\ FWLast(ip).ok
            /\ FWLast(ip).mid = 0 /\ FWLast(ip).post = 1
            /\ FWLast(ip).stamp = FWLast(ip).t
            /\ ipRequestCounts[ip] = FWNew(FWLast(ip).t)

\* a retry admitted after a hint that was rounded up to whole seconds and
\* after further rejected requests inside the window
C18_Witness ==
    \E ip \in Keys : \E h, g \in retryHints[ip].hints :
        /\ Len(FWHist(ip)) > 0
        /\ FWLast(ip).t >= h.due /\ FWLast(ip).t = now
        /\ retryHints[ip].before = h.windowStart
        /\ h.due > h.windowStart + windowTime
        /\ g.windowStart = h.windowStart /\ g.due # h.due
        /\ FWLast(ip).ok /\ FWLast(ip).post = 1

\* the admissions of the key in the longest interval shorter than
\* windowTime that ends now
FWShortBurst(ip) == Len(Within(passed[ip], now, windowTime))

\* two windows used up back to back: the window a reset has just opened is
\* full, and 2 * maxRequests admissions lie in [now - windowTime, now]
FWBoundaryBurst(ip) ==
    /\ Has(ipRequestCounts, ip)
    /\ ipRequestCounts[ip] = [count |-> fwMaxRequests, windowStart |-> now]
    /\ Len(Within(passed[ip], now, windowTime + 1)) = 2 * fwMaxRequests

\* C20 as stated: the admissions of a key within an interval shorter than
\* windowTime number at most 2 * maxRequests, and the bound is attained by
\* maxRequests at the end of one window followed by maxRequests right after
\* the reset.
C20_Original ==
    \A ip \in Keys :
        /\ FWShortBurst(ip) <= 2 * fwMaxRequests
        /\ FWBoundaryBurst(ip) => FWShortBurst(ip) = 2 * fwMaxRequests

\* C20 as amended: the admissions of a key within an interval shorter than
\* windowTime number at most 2 * maxRequests - 1, because the request that
\* opens a window lies a whole windowTime before the reset.
C20_BoundaryBurst ==
    \A ip \in Keys :
        /\ FWShortBurst(ip) <= 2 * fwMaxRequests - 1
        /\ Len(Within(passed[ip], now, windowTime + 1)) <= 2 * fwMaxRequests

\* the bound is attained: maxRequests - 1 admissions late in one window and
\* maxRequests right after the reset
C20_Witness ==
    \E ip \in Keys :
        /\ FWShortBurst(ip) = 2 * fwMaxRequests - 1
        /\ ipRequestCounts[ip] = [count |-> fwMaxRequests, windowStart |-> now]

----------------------------------------------------------------------------
(* Sliding window counter claims *)

SWCHist(ip) == hist["slidingCounter"][ip]

\* the last two requests of the key both computed an estimate
SWCTwoEstimates(ip) ==
    Len(SWCHist(ip)) = 2 /\ ~SWCHist(ip)[1].first /\ ~SWCHist(ip)[2].first

\* C10 as stated: between two consecutive requests of a key the estimate
\* drops only when a bucket roll happened between them; inside one bucket it
\* never decreases.
C10_Original ==
    \A ip \in Keys :
        SWCTwoEstimates(ip) =>
            (FLess(SWCHist(ip)[2].total, SWCHist(ip)[1].total)
                => SWCHist(ip)[2].bucket # SWCHist(ip)[1].bucket)

\* C10 as amended: inside one bucket the estimate of the later of two
\* consecutive requests is not below that of the earlier one when both come
\* at the same instant, or when the previous count is at least the current
\* count the earlier estimate used.
C10_EstimateMonotone ==
    \A ip \in Keys :
        (SWCTwoEstimates(ip) /\ SWCHist(ip)[2].bucket = SWCHist(ip)[1].bucket) =>
            ((SWCHist(ip)[1].t = SWCHist(ip)[2].t
                  \/ SWCHist(ip)[1].prev >= SWCHist(ip)[1].cur)
                => ~FLess(SWCHist(ip)[2].total, SWCHist(ip)[1].total))

\* two requests of one bucket at different instants, the previous bucket
\* holding at least as many requests as the current one
C10_Witness ==
    \E ip \in Keys :
        /\ SWCTwoEstimates(ip)
        /\ SWCHist(ip)[2].bucket = SWCHist(ip)[1].bucket
        /\ SWCHist(ip)[2].t > SWCHist(ip)[1].t
        /\ SWCHist(ip)[1].prev >= SWCHist(ip)[1].cur
        /\ SWCHist(ip)[2].prev > SWCHist(ip)[2].cur
        /\ FLess(SWCHist(ip)[1].total, SWCHist(ip)[2].total)

\* C11: for every weight in [0, 1) the estimate lies between the smaller of
\* the two counts and their sum: min(current.count, previous.count) <=
\* estimate <= current.count + previous.count.  The doubles of line 41 break
\* the lower bound: with both counts 5 and 31 ms into the bucket the
\* estimate is 4.999999999999999.
C11_EstimateBounds ==
    \A ip \in Keys : \A i \in 1..Len(SWCHist(ip)) :
        LET c == SWCHist(ip)[i] IN
        ~c.first =>
            /\ timeIntoWindow(c.t) >= 0 /\ timeIntoWindow(c.t) < windowSize
            /\ ~FLess(c.total, FInt(Min(c.cur, c.prev)))
            /\ ~FLess(FInt(c.cur + c.prev), c.total)

\* C12: after every call of a key, current.timestamp is the start of the
\* bucket that contains the clock value of the call, and previous describes
\* the bucket immediately before it: previous.timestamp = current.timestamp
\* - windowSize, with count 0 when that bucket saw no request, also when the
\* key was idle for more than one whole bucket.
C12_BucketsAligned ==
    \A ip \in Keys :
        Has(swcBuckets, ip) =>
            LET e == swcBuckets[ip]
                h == SWCHist(ip) IN
            /\ e.current.timestamp = h[Len(h)].bucket
            /\ e.previous.timestamp = e.current.timestamp - windowSize
            /\ (Len(h) = 2 /\ h[1].bucket < h[2].bucket - windowSize) =>
                   e.previous.count = 0

\* C13: for every key, at most maxRequests requests are admitted in any
\* interval of length windowSize (here: in the interval of the windowSize
\* milliseconds that end with the current one).
C13_RateBound ==
    \A ip \in Keys : Len(Within(passed[ip], now, windowSize)) <= swcMaxRequests

----------------------------------------------------------------------------
(* Token bucket claims *)

TBHist(ip) == hist["tokenBucket"][ip]

\* C3: the stored tokens value is always in [0, capacity], and every admitted
\* request leaves tokens exactly 1 below the value its refill step produced.
C3_TokensInRange ==
    \A ip \in Keys :
        /\ Has(tokenBuckets, ip) =>
               /\ tokenBuckets[ip].tokens >= 0
               /\ tokenBuckets[ip].tokens <= bucketCapacity
        /\ \A i \in 1..Len(TBHist(ip)) :
               LET c == TBHist(ip)[i] IN
               /\ c.mid >= 0 /\ c.mid <= bucketCapacity
               /\ c.ok => c.post = c.mid - 1
               /\ ~c.ok => c.post = c.mid

\* an admitted request whose refill step added tokens, and a key drained to 0
C3_Witness ==
    \E ip \in Keys :
        /\ Has(tokenBuckets, ip) /\ tokenBuckets[ip].tokens = 0
        /\ \E i \in 1..Len(TBHist(ip)) :
               LET c == TBHist(ip)[i] IN ~c.first /\ c.ok /\ c.mid > c.pre

\* what an idle period between two consecutive requests of a key makes
\* admissible: the level the later call's refill step reaches, less the
\* level the earlier call stored
TBGain(h, i) == h[i + 1].mid - h[i].post
TBIdle(h, i) == h[i + 1].t - h[i].t

\* C4 as stated: after an idle period of t seconds, measured from the key's
\* last request, at most floor(t * refillRate) more requests are admissible.
C4_Original ==
    \A ip \in Keys : \A i \in 1..(Len(TBHist(ip)) - 1) :
        /\ TBGain(TBHist(ip), i) <= FloorDiv(TBIdle(TBHist(ip), i) * refillRate, 1000)
        /\ TBHist(ip)[i + 1].mid <= bucketCapacity

\* C4 as amended: the idle period counts from the stored lastRefill, which
\* lies less than one token's time before the last request, so the gain is
\* at most floor((t + c) * refillRate) <= floor(t * refillRate) + 1, and
\* tokens never pass capacity.
C4_IdleGain ==
    \A ip \in Keys : \A i \in 1..(Len(TBHist(ip)) - 1) :
        LET h == TBHist(ip) IN
        /\ (h[i].t - h[i].stamp) * refillRate < 1000
        /\ TBGain(h, i) <= FloorDiv((h[i + 1].t - h[i].stamp) * refillRate, 1000)
        /\ TBGain(h, i) <= FloorDiv(TBIdle(h, i) * refillRate, 1000) + 1
        /\ h[i + 1].mid <= bucketCapacity

\* an idle period shorter than one token's time that still yields a token
C4_Witness ==
    \E ip \in Keys : \E i \in 1..(Len(TBHist(ip)) - 1) :
        /\ TBIdle(TBHist(ip), i) > 0
        /\ TBGain(TBHist(ip), i) = FloorDiv(TBIdle(TBHist(ip), i) * refillRate, 1000) + 1

RECURSIVE TBAdded(_, _)
\* tokens the refill steps of calls 1..i added
TBAdded(h, i) == IF i = 0 THEN 0 ELSE TBAdded(h, i - 1) + (h[i].mid - h[i].pre)

\* no refill step of calls 1..i reached capacity
TBUnsaturated(h, i) == \A j \in 1..i : h[j].first \/ h[j].mid < bucketCapacity

\* C5: a call that adds k >= 1 tokens advances lastRefill by exactly the time
\* worth k tokens, so that for a key that never saturates the tokens added
\* since its first observation at t0 total floor((now - t0) * refillRate / 1000)
\* after every call.
C5_NoFractionLost ==
    \A ip \in Keys : \A i \in 1..Len(TBHist(ip)) :
        LET h == TBHist(ip) IN
        TBUnsaturated(h, i) =>
            /\ TBAdded(h, i) = FloorDiv((h[i].t - h[1].t) * refillRate, 1000)
            /\ (i > 1 /\ h[i].mid > h[i].pre) =>
                   (h[i].stamp - h[i - 1].stamp) * refillRate = (h[i].mid - h[i].pre) * 1000

\* the first i calls of the key all came at the clock value of its first call
TBBurst(h, i) == i <= Len(h) /\ \A j \in 1..i : h[j].t = h[1].t

\* C6: of a new key's immediate requests exactly `capacity` are admitted, the
\* next immediate one is rejected with retryAfter = 1 = ceil(1 / refillRate),
\* and one second later exactly one more is admitted before the next rejection.
C6_BurstAndRefill ==
    \A ip \in Keys :
        LET h == TBHist(ip)
            n == bucketCapacity IN
        /\ \A i \in 1..n : TBBurst(h, i) => h[i].ok
        /\ TBBurst(h, n + 1) =>
               /\ ~h[n + 1].ok
               /\ h[n + 1].retry = 1
               /\ h[n + 1].retry = CeilDiv(1, refillRate)
        /\ (TBBurst(h, n + 1) /\ Len(h) >= n + 2 /\ h[n + 2].t = h[1].t + 1000) =>
               /\ h[n + 2].ok
               /\ (Len(h) >= n + 3 /\ h[n + 3].t = h[n + 2].t) => ~h[n + 3].ok

\* the whole scenario has run: burst, rejection, one admission, rejection
C6_Witness ==
    \E ip \in Keys :
        LET h == TBHist(ip)
            n == bucketCapacity IN
        /\ TBBurst(h, n + 1) /\ Len(h) = n + 3
        /\ h[n + 2].t = h[1].t + 1000 /\ h[n + 3].t = h[n + 2].t
        /\ h[n + 2].ok /\ ~h[n + 3].ok

----------------------------------------------------------------------------
(* Leaky bucket claims *)

LBHist(ip) == hist["leakyBucket"][ip]

\* C7: the stored queue level is always in [0, capacity]; a request is admitted
\* exactly when the level after leaking is below capacity, and then raises the
\* level by exactly 1.
C7_QueueInRange ==
    \A ip \in Keys :
        /\ Has(buckets, ip) =>
               /\ buckets[ip].queue >= 0
               /\ buckets[ip].queue <= queueCapacity
        /\ \A i \in 1..Len(LBHist(ip)) :
               LET c == LBHist(ip)[i] IN
               /\ c.ok <=> c.mid < queueCapacity
               /\ c.ok => c.post = c.mid + 1
               /\ ~c.ok => c.post = c.mid

\* a full queue, after an admission that followed a leak and a rejection
C7_Witness ==
    \E ip \in Keys :
        /\ Has(buckets, ip) /\ buckets[ip].queue = queueCapacity
        /\ \E i, j \in 1..Len(LBHist(ip)) :
               /\ LBHist(ip)[i].ok /\ LBHist(ip)[i].mid < LBHist(ip)[i].pre
               /\ ~LBHist(ip)[j].ok

\* C8: when exactly k leak intervals pass between two consecutive requests of
\* a key, the later call's leak step lowers the level by exactly k, saturating
\* at 0, whatever happened before.
C8_LeakExact ==
    \A ip \in Keys : \A i \in 1..(Len(LBHist(ip)) - 1) :
        LET h == LBHist(ip)
            dt == h[i + 1].t - h[i].t IN
        dt % leakRate = 0 =>
            /\ h[i + 1].pre = h[i].post
            /\ h[i + 1].mid = Max(0, h[i].post - dt \div leakRate)

\* a whole number of intervals passed while part of an interval was carried
C8_Witness ==
    \E ip \in Keys : \E i \in 1..(Len(LBHist(ip)) - 1) :
        LET h == LBHist(ip)
            dt == h[i + 1].t - h[i].t IN
        /\ dt >= leakRate /\ dt % leakRate = 0
        /\ h[i].t > h[i].stamp
        /\ h[i + 1].mid = h[i].post - dt \div leakRate

\* the first i calls of the key all came at the clock value of its first call
LBBurst(h, i) == i <= Len(h) /\ \A j \in 1..i : h[j].t = h[1].t

\* C9: of a new key's instant requests exactly `capacity` are admitted, the
\* next instant one is rejected with retryAfter = ceil(leakIntervalMs / 1000),
\* and one leak interval later exactly one more is admitted.
C9_FillAndDrain ==
    \A ip \in Keys :
        LET h == LBHist(ip)
            n == queueCapacity IN
        /\ \A i \in 1..n : LBBurst(h, i) => h[i].ok
        /\ LBBurst(h, n + 1) =>
               /\ ~h[n + 1].ok
               /\ h[n + 1].retry = CeilDiv(leakRate, 1000)
        /\ (LBBurst(h, n + 1) /\ Len(h) >= n + 2 /\ h[n + 2].t = h[1].t + leakRate) =>
               /\ h[n + 2].ok
               /\ (Len(h) >= n + 3 /\ h[n + 3].t = h[n + 2].t) => ~h[n + 3].ok

\* the whole scenario has run: fill, rejection, one admission, rejection
C9_Witness ==
    \E ip \in Keys :
        LET h == LBHist(ip)
            n == queueCapacity IN
        /\ LBBurst(h, n + 1) /\ Len(h) = n + 3
        /\ h[n + 2].t = h[1].t + leakRate /\ h[n + 3].t = h[n + 2].t
        /\ h[n + 2].ok /\ ~h[n + 3].ok /\ h[n + 3].retry = 1

----------------------------------------------------------------------------
(* Delaying throttle claims *)

\* C14: whatever the order of arrivals and timer callbacks, the requests of
\* one key passed to the next stage, at once or after a delay, within an
\* interval of length TIME_WINDOW never number more than MAX_REQUESTS (here:
\* within the TIME_WINDOW milliseconds that end with the current one).
C14_ThrottleBound ==
    \A ip \in Keys : Len(Within(passed[ip], now, TIME_WINDOW)) <= MAX_REQUESTS

\* the pending callbacks of request i
TimersOf(i) == {timer \in timers : timer.id = i}

\* no request is answered with a rejection; a request that was continued at
\* once has no callback, a deferred one has exactly one until it has run
ThOnce ==
    /\ resp.status # 429
    /\ \A i \in 1..Len(reqs) :
           /\ reqs[i].nexts <= 1
           /\ ~reqs[i].deferred => reqs[i].nexts = 1 /\ TimersOf(i) = {}
           /\ reqs[i].deferred => Cardinality(TimersOf(i)) = 1 - reqs[i].nexts

\* C15: the throttle rejects no request; every request is continued at once
\* or has exactly one one-shot continuation scheduled; and when the due
\* callbacks keep being run, every request is eventually passed to the next
\* stage, exactly once.
C15_EveryRequestPassedOnce ==
    /\ []ThOnce
    /\ \A i \in 1..ThMaxReqs :
           (Len(reqs) >= i) ~> (Len(reqs) >= i /\ reqs[i].nexts = 1)

\* every request has been passed on, two of them by callbacks that ran
\* after later requests had arrived
C15_Witness ==
    /\ Len(reqs) = ThMaxReqs
    /\ timers = {}
    /\ \A i \in 1..Len(reqs) : reqs[i].nexts = 1
    /\ \E i, j \in 1..Len(reqs) :
           /\ i < j /\ reqs[i].deferred /\ reqs[j].deferred
           /\ \E k \in (j + 1)..Len(reqs) : ~reqs[k].deferred

----------------------------------------------------------------------------
(* Chain claims *)

\* the request has left the chain: answered or handled
ChainDone == chain.at = 0 /\ Len(chain.verdicts) > 0

\* C16: with the five strategies chained in the order fixed window, sliding
\* log, sliding counter, token bucket, leaky bucket, a request reaches the
\* handler exactly when every one of the five allowed it; otherwise exactly
\* one rejection response is produced, by the first strategy in chain order
\* that denies, and no strategy after it runs.
C16_ChainIsConjunction ==
    LET v == chain.verdicts
        n == Len(v) IN
    /\ n <= Len(ChainOrder)
    /\ \A j \in 1..n : v[j].strategy = ChainOrder[j]
    /\ \A j \in 1..(n - 1) : v[j].next /\ v[j].status # 429
    /\ chain.at # 0 => n = chain.at - 1 /\ v[n].next /\ ~chain.handled
    /\ ChainDone =>
           /\ chain.handled <=> (n = Len(ChainOrder) /\ \A j \in 1..n : v[j].next)
           /\ ~chain.handled =>
                  /\ ~v[n].next /\ v[n].status = 429
                  /\ Cardinality({j \in 1..n : v[j].status = 429}) = 1

\* a request the sliding window counter rejected after two strategies had
\* allowed it, while the token bucket behind it was empty
C16_Witness ==
    /\ ChainDone /\ ~chain.handled
    /\ Len(chain.verdicts) < Len(ChainOrder)
    /\ Len(chain.verdicts) > 1
    /\ Has(tokenBuckets, chain.ip) /\ tokenBuckets[chain.ip].tokens = 0
    /\ chain.verdicts[Len(chain.verdicts)].strategy = "slidingCounter"

----------------------------------------------------------------------------
(* Outcome of an invocation *)

\* C17: every invocation of one of the five strategies ends in exactly one
\* of two ways: next() is called and no response is sent, or a response with
\* status 429, an error text and an integer retryAfter is sent and next() is
\* not called.
C17_OneOutcome ==
    resp # NoResponse =>
        /\ resp.strategy \in Strategies
        /\ \/ /\ resp.next
              /\ resp.status = 0 /\ resp.error = "" /\ resp.retryAfter = -1
           \/ /\ ~resp.next
              /\ resp.status = 429 /\ resp.error # ""
              /\ resp.retryAfter \in Int /\ resp.retryAfter >= 0
        /\ LET h == hist[resp.strategy][resp.ip] IN
           h[Len(h)].ok = resp.next /\ h[Len(h)].retry = resp.retryAfter

\* a rejection whose hint is a whole number of seconds although the time
\* left in the window is not
C17_Witness ==
    /\ resp.strategy = "fixedWindow" /\ resp.status = 429 /\ ~resp.next
    /\ LET c == FWLast(resp.ip) IN
       /\ c.t = now /\ c.retry = resp.retryAfter
       /\ (windowTime - (c.t - c.stamp)) % 1000 # 0

----------------------------------------------------------------------------
(* Fixed window: the reset *)

\* C21: a request of a key with stored state that arrives with now -
\* windowStart >= windowTime is admitted and leaves exactly {count: 1,
\* windowStart: now}, whatever the count was; after every call 1 <= count <=
\* maxRequests, and successive windows of a key start at least windowTime
\* apart.
C21_Reset ==
    \A ip \in Keys :
        /\ Has(ipRequestCounts, ip) =>
               /\ ipRequestCounts[ip].count >= 1
               /\ ipRequestCounts[ip].count <= fwMaxRequests
               /\ ipRequestCounts[ip].count = FWLast(ip).post
               /\ ipRequestCounts[ip].windowStart = FWLast(ip).stamp
        /\ Len(FWHist(ip)) = 2 =>
               LET a == FWHist(ip)[1]
                   c == FWHist(ip)[2] IN
               /\ c.pre = a.post
               /\ c.t - a.stamp >= windowTime =>
                      c.ok /\ c.post = 1 /\ c.stamp = c.t
               /\ c.stamp # a.stamp => c.stamp - a.stamp >= windowTime
               /\ c.t - a.stamp < windowTime => c.stamp = a.stamp

\* a used-up window reset by a request that comes exactly windowTime after
\* its start
C21_Witness ==
    \E ip \in Keys :
        /\ Len(FWHist(ip)) = 2
        /\ FWHist(ip)[2].pre = fwMaxRequests
        /\ FWHist(ip)[2].t - FWHist(ip)[1].stamp = windowTime
        /\ ipRequestCounts[ip] = [count |-> 1, windowStart |-> now]

----------------------------------------------------------------------------
(* Sliding window log: the stored sequence *)

SLLast(ip) == SLHist(ip)[Len(SLHist(ip))]

\* C22: after every call at time now, every timestamp stored for the key
\* satisfies now - ts <= windowMs, the stored sequence is in non-decreasing
\* time order with the oldest retained timestamp at index 0, the one the
\* retry hint is computed from, and its last element is now.
C22_LogInvariant ==
    \A ip \in Keys :
        Has(requestLogs, ip) =>
            LET log == requestLogs[ip]
                c == SLLast(ip) IN
            /\ Len(log) >= 1
            /\ log[Len(log)] = c.t
            /\ \A i \in 1..Len(log) : c.t - log[i] <= windowMs
            /\ \A i \in 1..(Len(log) - 1) : log[i] <= log[i + 1]
            /\ log[1] = c.stamp
            /\ ~c.ok => c.retry = CeilDiv(windowMs - (c.t - log[1]), 1000)

\* a call that dropped timestamps and kept an oldest one that lies exactly
\* windowMs back, rejected with the hint 0
C22_Witness ==
    \E ip \in Keys :
        /\ Has(requestLogs, ip) /\ Len(SLHist(ip)) = 2
        /\ SLLast(ip).mid < SLLast(ip).pre
        /\ SLLast(ip).t - requestLogs[ip][1] = windowMs
        /\ ~SLLast(ip).ok /\ SLLast(ip).retry = 0

\* C23: every call appends exactly one timestamp to the key's log before
\* the decision is taken, also when the call is rejected, so the stored
\* length is not bounded by maxRequests and a later request is decided on a
\* length that includes the timestamps of earlier rejected requests.
C23_RejectedAreLogged ==
    \A ip \in Keys :
        /\ Has(requestLogs, ip) => Len(requestLogs[ip]) = SLLast(ip).post
        /\ \A i \in 1..Len(SLHist(ip)) :
               LET c == SLHist(ip)[i] IN
               /\ c.post = c.mid + 1
               /\ c.ok <=> c.post <= slMaxRequests
        /\ Len(SLHist(ip)) = 2 =>
               LET a == SLHist(ip)[1]
                   c == SLHist(ip)[2] IN
               /\ c.pre = a.post
               /\ c.t - a.stamp <= windowMs => c.mid = a.post

\* two rejections at different times: the log holds maxRequests + 2
\* timestamps, maxRequests of them of admitted requests, and the second
\* rejection was decided on a length that counts the first rejected request
C23_Witness ==
    \E ip \in Keys :
        /\ Len(SLHist(ip)) = 2
        /\ ~SLHist(ip)[1].ok /\ ~SLHist(ip)[2].ok
        /\ Len(requestLogs[ip]) = slMaxRequests + 2
        /\ Len(admitted[ip]) = slMaxRequests
        /\ SLHist(ip)[2].t > SLHist(ip)[1].t

----------------------------------------------------------------------------
(* What a rejection leaves behind *)

\* the stored level and stored time are those the call before left
SameAsBefore(h, i) == h[i].post = h[i - 1].post /\ h[i].stamp = h[i - 1].stamp

\* C24: in the fixed window, token bucket and leaky bucket a rejected
\* request leaves the key's stored state exactly as it was before the call:
\* count and windowStart, tokens and lastRefill, queue and lastLeakTime.
C24_RejectionKeepsState ==
    \A ip \in Keys :
        /\ \A i \in 1..Len(FWHist(ip)) :
               ~FWHist(ip)[i].ok =>
                   /\ ~FWHist(ip)[i].first
                   /\ i > 1 => SameAsBefore(FWHist(ip), i)
                   /\ FWHist(ip)[i].pre = FWHist(ip)[i].post
        /\ \A i \in 1..Len(TBHist(ip)) :
               ~TBHist(ip)[i].ok =>
                   /\ i > 1 /\ SameAsBefore(TBHist(ip), i)
                   /\ TBHist(ip)[i].pre = TBHist(ip)[i].post
        /\ \A i \in 1..Len(LBHist(ip)) :
               ~LBHist(ip)[i].ok =>
                   /\ i > 1 /\ SameAsBefore(LBHist(ip), i)
                   /\ LBHist(ip)[i].pre = LBHist(ip)[i].post
        /\ (Has(ipRequestCounts, ip) /\ ~FWLast(ip).ok) =>
               /\ Len(FWHist(ip)) = 2
               /\ ipRequestCounts[ip] =
                      [count |-> FWHist(ip)[1].post, windowStart |-> FWHist(ip)[1].stamp]
        /\ (Has(tokenBuckets, ip) /\ Len(TBHist(ip)) > 1
               /\ ~TBHist(ip)[Len(TBHist(ip))].ok) =>
               tokenBuckets[ip] =
                   [tokens |-> TBHist(ip)[Len(TBHist(ip)) - 1].post,
                    lastRefill |-> TBHist(ip)[Len(TBHist(ip)) - 1].stamp]
        /\ (Has(buckets, ip) /\ Len(LBHist(ip)) > 1
               /\ ~LBHist(ip)[Len(LBHist(ip))].ok) =>
               buckets[ip] =
                   [lastLeakTime |-> LBHist(ip)[Len(LBHist(ip)) - 1].stamp,
                    queue |-> LBHist(ip)[Len(LBHist(ip)) - 1].post]

\* a token bucket rejection half a second after the stored lastRefill, which
\* the rejection did not move
C24_Witness ==
    \E ip \in Keys : \E i \in 2..Len(TBHist(ip)) :
        /\ i = Len(TBHist(ip))
        /\ ~TBHist(ip)[i].ok
        /\ TBHist(ip)[i].t > TBHist(ip)[i - 1].t
        /\ TBHist(ip)[i].t > TBHist(ip)[i].stamp
        /\ tokenBuckets[ip].lastRefill = TBHist(ip)[i - 1].stamp

----------------------------------------------------------------------------
(* Leaky bucket: the drain rate *)

RECURSIVE LBLeakedSum(_, _)
\* units the leak steps of calls 1..i removed
LBLeakedSum(h, i) == IF i = 0 THEN 0 ELSE LBLeakedSum(h, i - 1) + (h[i].pre - h[i].mid)

\* no leak step of calls 1..i emptied the queue
LBNeverEmpty(h, i) == \A j \in 1..i : h[j].first \/ h[j].mid > 0

\* C25: a call that leaks k >= 1 units carries the time beyond k whole leak
\* intervals over to the next call, so that for a key whose queue never
\* saturates at 0 the units leaked since its first observation at t0 total
\* floor((now - t0) / leakRate) after every call.
C25_NoFractionLost ==
    \A ip \in Keys : \A i \in 1..Len(LBHist(ip)) :
        LET h == LBHist(ip) IN
        LBNeverEmpty(h, i) =>
            /\ LBLeakedSum(h, i) = FloorDiv(h[i].t - h[1].t, leakRate)
            /\ (i > 1 /\ h[i].mid < h[i].pre) =>
                   h[i].stamp - h[i - 1].stamp = (h[i].pre - h[i].mid) * leakRate

----------------------------------------------------------------------------
(* Delaying throttle: the deferred request *)

\* the values of a sequence
Range(seq) == {seq[i] : i \in 1..Len(seq)}

\* C26: a request that finds MAX_REQUESTS timestamps in the window is
\* scheduled with delay = TIME_WINDOW - (currentTime - oldest tracked
\* timestamp), the oldest being the first of the timestamps it found; its
\* continuation prunes the log the key has then against the later clock
\* value it reads then, so the timestamp that was oldest at scheduling time
\* is not retained, appends its own continuation time and proceeds.  A
\* callback that runs when Date.now() is still short of the due time keeps
\* that timestamp.
C26_DeferredContinuation ==
    \A i \in 1..Len(reqs) :
        LET r == reqs[i] IN
        /\ r.deferred <=> Len(r.found) >= MAX_REQUESTS
        /\ r.deferred =>
               /\ \A ts \in Range(r.found) : r.found[1] <= ts
               /\ \A timer \in TimersOf(i) :
                      timer.due = r.t + (TIME_WINDOW - (r.t - r.found[1]))
               /\ r.nexts = 1 =>
                      /\ r.at > r.t
                      /\ r.found[1] \notin Range(r.log)
                      /\ \A ts \in Range(r.log) : r.at - ts < TIME_WINDOW
                      /\ r.log[Len(r.log)] = r.at

\* the delay a deferred request was scheduled with
ThDelayOf(r) == TIME_WINDOW - (r.t - r.found[1])

\* the callback of a deferred request ran no later than the millisecond it
\* was set for
ThOnTime(r) == r.at <= r.t + ThDelayOf(r)

\* every deferred request has a delay in 1..TIME_WINDOW, its timer is set for
\* arrival + delay, and a request passed on at once or by a callback that ran
\* on time was not held longer than TIME_WINDOW
ThDelayBounded ==
    \A i \in 1..Len(reqs) :
        LET r == reqs[i] IN
        /\ r.deferred => ThDelayOf(r) > 0 /\ ThDelayOf(r) <= TIME_WINDOW
        /\ r.deferred => \A timer \in TimersOf(i) : timer.due = r.t + ThDelayOf(r)
        /\ (r.nexts = 1 /\ ~r.deferred) => r.at = r.t
        /\ (r.nexts = 1 /\ r.deferred /\ ThOnTime(r)) => r.at - r.t <= TIME_WINDOW
        /\ (r.nexts = 0 /\ now <= r.t + ThDelayOf(r)) => now - r.t <= TIME_WINDOW

\* C27: the clock being monotonic, the delay of a deferred request satisfies
\* 0 < delay <= TIME_WINDOW; when timers fire on time every request is
\* passed to the next stage, and no later than TIME_WINDOW after its
\* arrival, however many requests of the key are deferred already.
C27_PassedWithinWindow ==
    /\ []ThDelayBounded
    /\ \A i \in 1..ThMaxReqs :
           (Len(reqs) >= i) ~> (Len(reqs) >= i /\ reqs[i].nexts = 1)

\* three requests of the key were deferred one after the other, the full
\* TIME_WINDOW each, and all have been passed on
C27_Witness ==
    \E i, j, k \in 1..Len(reqs) :
        /\ i < j /\ j < k
        /\ \A n \in {i, j, k} :
               /\ reqs[n].deferred /\ reqs[n].nexts = 1
               /\ reqs[n].at - reqs[n].t = TIME_WINDOW
        /\ reqs[k].t < reqs[i].at

----------------------------------------------------------------------------
(* Two keys *)

\* what a store holds for a key: nothing, or one entry
Entry(map, ip) == IF Has(map, ip) THEN <<map[ip]>> ELSE <<>>

\* a step leaves what every store holds for the keys other than the one of
\* the request as it was
OthersKept ==
    \A B \in Keys \ {resp'.ip} :
        \A i \in 1..Len(stores) : Entry(stores'[i], B) = Entry(stores[i], B)

\* every call of a key found the count, log length, tokens or queue that the
\* previous call of the same key had left
FoundAsLeft ==
    \A ip \in Keys :
        \A s \in {"fixedWindow", "slidingLog", "tokenBucket", "leakyBucket"} :
            \A i \in 2..Len(hist[s][ip]) :
                /\ ~hist[s][ip][i].first
                /\ hist[s][ip][i].pre = hist[s][ip][i - 1].post

\* C28: in every strategy a request with client key A creates or modifies
\* only the state entry of A; the entry of every other key B is unchanged by
\* any sequence of requests of A, so the next request of B is decided on the
\* state the last request of B left.
C28_KeyIsolation == [][OthersKept]_vars /\ []FoundAsLeft

\* one key has emptied its token bucket and is rejected while the bucket of
\* the other key, called in between, has lost one token only
C28_Witness ==
    /\ Has(tokenBuckets, "ip1") /\ Has(tokenBuckets, "ip2")
    /\ resp.ip = "ip1" /\ resp.status = 429
    /\ tokenBuckets["ip1"].tokens = 0
    /\ tokenBuckets["ip2"].tokens = bucketCapacity - 1
    /\ Len(TBHist("ip1")) > 2
    /\ TBHist("ip2")[1].t > TBHist("ip1")[1].t

----------------------------------------------------------------------------
(* The chain: what a rejected request leaves behind *)

\* a step changes no store but the one of the middleware that ran
OwnStoreOnly ==
    \A j \in 1..Len(stores) :
        stores'[j] # stores[j] => resp'.strategy = ChainOrder[j]

\* when middleware i answered the request with a rejection, the stores of
\* the middlewares after i are as the request found them and the stores of
\* the middlewares before i are not
RejectedHalfway ==
    \A i \in 1..Len(chain.verdicts) :
        ~chain.verdicts[i].next =>
            /\ chain.at = 0
            /\ \A j \in (i + 1)..Len(stores) : stores[j] = chain.entry[j]
            /\ \A j \in 1..(i - 1) : stores[j] # chain.entry[j]

\* C29: the strategies share no state, and when the i-th strategy of the
\* chain rejects a request the stores of all strategies after it are left
\* unchanged by that request while the strategies before it keep the
\* mutation they made, although the request never reaches the handler.
C29_ChainFrame ==
    /\ [][OwnStoreOnly]_vars
    /\ [](RejectedHalfway /\ (chain.handled => \A j \in 1..Len(stores) :
                                                   stores[j] # chain.entry[j]))

\* the token bucket, fourth in the chain, has rejected a request that found
\* a leaky bucket entry: the three stores before it have changed
C29_Witness ==
    /\ Len(chain.verdicts) = 4
    /\ chain.at = 0
    /\ ~chain.verdicts[4].next
    /\ ~chain.handled
    /\ Has(buckets, chain.ip)
    /\ buckets = chain.entry[5]
    /\ \A j \in 1..3 : stores[j] # chain.entry[j]

----------------------------------------------------------------------------
(* Token bucket: the long-run bound *)

\* the admitted calls of h with clock values in the closed interval [a, b]
TBAdmittedIn(h, a, b) == {k \in 1..Len(h) : h[k].ok /\ h[k].t >= a /\ h[k].t <= b}

\* what an interval of T milliseconds admits at most
TBIntervalBound(T) == bucketCapacity + FloorDiv(T * refillRate, 1000)

\* C30: for one key and any closed time interval of length T milliseconds,
\* the admitted requests with timestamps in the interval number at most
\* capacity + floor(T * refillRate / 1000), whatever happened before the
\* interval (here: for the intervals that start with a call of the key and
\* end with its last call; every call is the last one when it has just run).
C30_IntervalBound ==
    \A ip \in Keys :
        LET h == TBHist(ip) IN
        \A i \in 1..Len(h) :
            Cardinality(TBAdmittedIn(h, h[i].t, h[Len(h)].t))
                <= TBIntervalBound(h[Len(h)].t - h[i].t)

\* an interval of one second that has calls before it and admits
\* capacity + 1 requests, the bound
C30_Witness ==
    \E ip \in Keys :
        LET h == TBHist(ip) IN
        \E i \in 2..Len(h) :
            /\ h[i].t > h[1].t
            /\ h[Len(h)].t = h[i].t + 1000
            /\ Cardinality(TBAdmittedIn(h, h[i].t, h[Len(h)].t)) = TBIntervalBound(1000)

----------------------------------------------------------------------------
(* The retry hint *)

\* C31: every rejection carries an integer retryAfter >= 0; the hint of the
\* fixed window lies in 1..ceil(windowTime / 1000) and the hint of the
\* sliding window log in 0..ceil(windowMs / 1000).
C31_RetryRange ==
    resp.status = 429 =>
        /\ resp.retryAfter \in Int
        /\ resp.retryAfter >= 0
        /\ resp.strategy = "fixedWindow" =>
               /\ resp.retryAfter >= 1
               /\ resp.retryAfter <= CeilDiv(windowTime, 1000)
        /\ resp.strategy = "slidingLog" =>
               resp.retryAfter <= CeilDiv(windowMs, 1000)

\* the sliding window log has rejected a request with the hint 0: its
\* oldest retained timestamp is exactly windowMs old
C31_Witness ==
    /\ resp.status = 429
    /\ resp.strategy = "slidingLog"
    /\ resp.retryAfter = 0
    /\ now - requestLogs[resp.ip][1] = windowMs

----------------------------------------------------------------------------
(* The life of a state entry *)

\* a step removes no key from any store, and a key that appears in a store
\* is the key of the request that has just run in that store's middleware
\* and was admitted
KeysOnlyAdded ==
    \A j \in 1..Len(stores) :
        /\ DOMAIN stores[j] \subseteq DOMAIN stores'[j]
        /\ \A ip \in (DOMAIN stores'[j]) \ (DOMAIN stores[j]) :
               /\ resp'.ip = ip
               /\ resp'.strategy = ChainOrder[j]
               /\ resp'.next

\* a key that has called a middleware has an entry in its store, and the
\* recorded first call of a key was admitted
KeysOfCallers ==
    \A j \in 1..Len(stores) : \A ip \in Keys :
        LET h == hist[ChainOrder[j]][ip] IN
        /\ Has(stores[j], ip) <=> Len(h) > 0
        /\ \A i \in 1..Len(h) : h[i].first => h[i].ok

\* C32: in every strategy a key's state entry is created by the first
\* request of the key, which is admitted without consulting the limit, and
\* is never removed: the set of keys present in a store never shrinks.
C32_Lifecycle == [][KeysOnlyAdded]_vars /\ []KeysOfCallers

\* the second key got its fixed window entry later than the first, which
\* has used its window up, was rejected, and is still there
C32_Witness ==
    /\ DOMAIN ipRequestCounts = Keys
    /\ resp.status = 429 /\ resp.ip = "ip1"
    /\ ipRequestCounts["ip1"].count = fwMaxRequests
    /\ ipRequestCounts["ip2"].windowStart > ipRequestCounts["ip1"].windowStart

----------------------------------------------------------------------------
(* Fixed window: interleaving invocations *)

\* C33: when every invocation runs its statements to completion before
\* another one starts, no window object of a key has more than maxRequests
\* admitted requests, and its count is their number, whatever the order of
\* arrivals and clock advances; when the statements of invocations for the
\* same key interleave, the excess stays below the number of invocations in
\* flight (and, as C33_Witness shows, a window with more than maxRequests
\* admitted requests is reachable).
C33_AtomicBound ==
    \A i \in 1..Len(calls.objs) :
        /\ ~calls.raced =>
               /\ calls.nexts[i] <= fwMaxRequests
               /\ calls.nexts[i] = calls.objs[i].count
               /\ i > 1 => calls.objs[i].windowStart - calls.objs[i - 1].windowStart
                               >= windowTime
        /\ calls.nexts[i] <= fwMaxRequests + (RaceProcs - 1)

\* two invocations both found count < maxRequests before either counted:
\* the window has admitted maxRequests + 1 requests
C33_Witness ==
    /\ calls.raced
    /\ \A p \in Procs : calls.procs[p].pc = "idle"
    /\ \E ip \in DOMAIN calls.at :
           /\ calls.nexts[calls.at[ip]] = fwMaxRequests + 1
           /\ ipRequestCounts[ip].count = fwMaxRequests + 1
           /\ resp.next

----------------------------------------------------------------------------
(* Delaying throttle: arrivals and callbacks in any order *)

\* how often v occurs in seq
Count(seq, v) == Cardinality({i \in 1..Len(seq) : seq[i] = v})

\* a step that writes the log of a key keeps every timestamp that is less
\* than TIME_WINDOW old, as often as it was there, and adds the clock value
\* once when it passes the request on; no key loses its log
NoLostUpdate ==
    /\ DOMAIN IPMap \subseteq DOMAIN IPMap'
    /\ \A ip \in DOMAIN IPMap :
           IPMap'[ip] # IPMap[ip] =>
               \A ts \in Range(IPMap[ip]) \cup Range(IPMap'[ip]) :
                   now' - ts < TIME_WINDOW =>
                       Count(IPMap'[ip], ts) =
                           Count(IPMap[ip], ts) +
                           (IF ts = now' /\ resp'.next /\ resp'.ip = ip THEN 1 ELSE 0)

\* every log is in non-decreasing time order
ThSorted ==
    \A ip \in DOMAIN IPMap :
        \A i \in 1..(Len(IPMap[ip]) - 1) : IPMap[ip][i] <= IPMap[ip][i + 1]

\* C34: a continuation reads the key's log as it is when it fires, not the
\* list captured at scheduling time, so in every interleaving of arrivals
\* and timer firings a timestamp recorded by another request of the key is
\* removed from the log only once it is at least TIME_WINDOW old, and the
\* log stays in non-decreasing time order.
C34_NoLostUpdate == [][NoLostUpdate]_vars /\ []ThSorted

\* a request that arrived while a deferred one was waiting was passed on at
\* once; the late continuation of the deferred one dropped what that one
\* had found and kept the timestamp of the other
C34_Witness ==
    \E i, j \in 1..Len(reqs) :
        /\ reqs[i].deferred /\ reqs[i].nexts = 1
        /\ ~reqs[j].deferred
        /\ reqs[j].t > reqs[i].t /\ reqs[j].t < reqs[i].at
        /\ reqs[j].t \in Range(reqs[i].log)
        /\ Range(reqs[i].found) \cap Range(reqs[i].log) = {}

----------------------------------------------------------------------------
(* Fixed window: where the windows lie *)

\* C35 as stated: for every key the stored windowStart is a multiple of
\* windowTime, a window boundary of the clock, and no two counting intervals
\* of a key overlap: a window that replaces another starts at least
\* windowTime after it.
C35_Original ==
    \A ip \in Keys :
        /\ Has(ipRequestCounts, ip) => ipRequestCounts[ip].windowStart % windowTime = 0
        /\ \A i \in 2..Len(FWHist(ip)) :
               FWHist(ip)[i].stamp # FWHist(ip)[i - 1].stamp =>
                   FWHist(ip)[i].stamp - FWHist(ip)[i - 1].stamp >= windowTime


\* the call opened a window: the first call of the key, or a reset
FWOpens(c) == c.first \/ c.mid = 0

\* C35 as amended: the windows of a key are anchored at requests, not at the
\* clock: the stored windowStart is the clock value of the request that
\* opened the window, every request counted or rejected in a window came
\* less than windowTime after its start, and no two counting intervals of
\* a key overlap: a window that replaces another starts at least
\* windowTime after it.
C35_RequestAnchored ==
    \A ip \in Keys :
        /\ Has(ipRequestCounts, ip) =>
               ipRequestCounts[ip].windowStart = FWLast(ip).stamp
        /\ \A i \in 1..Len(FWHist(ip)) :
               LET c == FWHist(ip)[i] IN
               /\ FWOpens(c) => c.stamp = c.t
               /\ ~FWOpens(c) => c.t - c.stamp >= 0 /\ c.t - c.stamp < windowTime
               /\ (i > 1 /\ ~FWOpens(c)) => c.stamp = FWHist(ip)[i - 1].stamp
               /\ (i > 1 /\ FWOpens(c)) =>
                      c.stamp - FWHist(ip)[i - 1].stamp >= windowTime

\* a window that started off the clock's window boundaries has been
\* replaced, exactly windowTime later, by the request that arrived then
C35_Witness ==
    \E ip \in Keys :
        /\ Len(FWHist(ip)) = 2
        /\ ~FWLast(ip).first /\ FWOpens(FWLast(ip))
        /\ FWLast(ip).stamp % windowTime # 0
        /\ FWLast(ip).stamp - FWHist(ip)[1].stamp = windowTime
        /\ ipRequestCounts[ip] = FWNew(now)

====
